---- MODULE Spec2Model ----
(***************************************************************************)
(* A model of the DataViz frontend: the useApi hook and the components     *)
(* that call it (SuggestionsPanel, DataUpload, Dashboard, DataTablePage).  *)
(* Each component is one mounted instance; Init is its state after the     *)
(* first render, with its mount effect still to run.  The backend is the   *)
(* environment: every request settles with an outcome drawn from a small   *)
(* set (a 2xx response with some body, or a failure with or without a      *)
(* message from the server).                                               *)
(*                                                                         *)
(* Rendering follows React: a state update that changes the state commits  *)
(* a new render; an update to the value the state already holds commits    *)
(* nothing.  The updates made by one handler run, or by one promise        *)
(* continuation, are committed together.                                   *)
(***************************************************************************)
EXTENDS Integers, Sequences, FiniteSets, TLC

VARIABLES
    \* a useApi instance driven by an arbitrary caller
    apiLoading, apiCalls,
    \* SuggestionsPanel (sugSubmitted: the last step was a call of
    \* handleInsightRequest)
    userInput, suggestions, insights, sugLoading, sugRequests, sugEffect,
    sugUserActed, sugUnhandled, sugSubmitted,
    \* DataUpload
    dragActive, file, message, messageType, inputValue, upLoading, upRequests,
    offered,
    \* Dashboard
    axiosBound, stats, chartData, dashCalls, dashEffect, dashUnhandled,
    \* DataTablePage
    tableData, columns, loading, tblHookLoading, tblPending, tblResponses,
    tblEffect,
    \* VisualizationPage
    visData, chartType, xAxis, yAxis, availableColumns, visHookLoading,
    visPending, visIssued, visEffect, visChosen

apiVars == <<apiLoading, apiCalls>>
sugVars == <<userInput, suggestions, insights, sugLoading, sugRequests, sugEffect,
             sugUserActed, sugUnhandled, sugSubmitted>>
upVars == <<dragActive, file, message, messageType, inputValue, upLoading,
            upRequests, offered>>
dashVars == <<axiosBound, stats, chartData, dashCalls, dashEffect, dashUnhandled>>
tblVars == <<tableData, columns, loading, tblHookLoading, tblPending,
             tblResponses, tblEffect>>
visVars == <<visData, chartType, xAxis, yAxis, availableColumns, visHookLoading,
             visPending, visIssued, visEffect, visChosen>>
vars == <<apiVars, sugVars, upVars, dashVars, tblVars, visVars>>

\* what the actions of one component leave alone
notApi == <<sugVars, upVars, dashVars, tblVars, visVars>>
notSug == <<apiVars, upVars, dashVars, tblVars, visVars>>
notUp == <<apiVars, sugVars, dashVars, tblVars, visVars>>
notDash == <<apiVars, sugVars, upVars, tblVars, visVars>>
notTbl == <<apiVars, sugVars, upVars, dashVars, visVars>>
notVis == <<apiVars, sugVars, upVars, dashVars, tblVars>>

----------------------------------------------------------------------------
(* Bounds of the model. *)

\* calls issued through the useApi instance of the hook harness
MaxCalls == 3
\* requests one SuggestionsPanel issues
MaxSugRequests == 3
\* upload requests one DataUpload issues
MaxUploads == 2
\* runs of the Dashboard's effect
MaxDashCalls == 3
\* requests one DataTablePage issues
MaxTableRequests == 3
\* requests one VisualizationPage issues
MaxVisRequests == 3

----------------------------------------------------------------------------
(* JavaScript values.  Every value carries its type in t, so that values   *)
(* of different types can be compared.                                     *)

Undefined == [t |-> "undefined"]
Null == [t |-> "null"]
Str(s) == [t |-> "string", v |-> s]
Num(n) == [t |-> "number", v |-> n]
Arr(q) == [t |-> "array", v |-> q]
Obj(r) == [t |-> "object", v |-> r]

\* ToBoolean: what `!x`, `x || y` and `x && y` test
Truthy(x) ==
    CASE x.t \in {"undefined", "null"} -> FALSE
      [] x.t = "string" -> x.v # ""
      [] x.t = "number" -> x.v # 0
      [] OTHER -> TRUE

\* x || y
OrElse(x, y) == IF Truthy(x) THEN x ELSE y

\* String.prototype.trim on a string given as its sequence of characters
RECURSIVE TrimStart(_)
TrimStart(s) ==
    IF s # <<>> /\ Head(s) = " " THEN TrimStart(Tail(s)) ELSE s

RECURSIVE TrimEnd(_)
TrimEnd(s) ==
    IF s # <<>> /\ s[Len(s)] = " " THEN TrimEnd(SubSeq(s, 1, Len(s) - 1)) ELSE s

trim(s) == TrimEnd(TrimStart(s))

----------------------------------------------------------------------------
(* The underlying axios request.  It ends with a 2xx response carrying a   *)
(* body, or it throws: msg is error.response?.data?.message.               *)

Responded(body) == [ok |-> TRUE, body |-> body, msg |-> Undefined]
Failed(msg) == [ok |-> FALSE, body |-> Undefined, msg |-> msg]

\* no response at all, a response without a message, an empty message,
\* a message
FailureMessages == {Undefined, Null, Str(""), Str("Invalid file")}
Failures == {Failed(m) : m \in FailureMessages}

----------------------------------------------------------------------------
(* useApi *)

DefaultMessage == Str("Backend not available")

Fulfilled(v) == [state |-> "fulfilled", value |-> v]
Rejected(e) == [state |-> "rejected", value |-> e]

\* a request function without its catch block
UncaughtRequest(o) ==
    IF o.ok
    THEN Fulfilled([data |-> o.body, error |-> FALSE])
    ELSE Rejected(o.msg)

\* what the promise returned by get settles to, given the outcome of api.get
get(o) ==
    IF o.ok
    THEN Fulfilled([data |-> o.body, error |-> FALSE])
    ELSE Fulfilled([data |-> Null, error |-> TRUE,
                    message |-> OrElse(o.msg, DefaultMessage)])

\* what the promise returned by post settles to, given the outcome of api.post
post(o) ==
    IF o.ok
    THEN Fulfilled([data |-> o.body, error |-> FALSE])
    ELSE Fulfilled([data |-> Null, error |-> TRUE,
                    message |-> OrElse(o.msg, DefaultMessage)])

\* the promise of a call, by its method
Settle(method, o) == IF method = "get" THEN get(o) ELSE post(o)

----------------------------------------------------------------------------
(* The hook driven by an arbitrary caller: any interleaving of get and     *)
(* post calls and of their completions.                                    *)

ApiBodies == {Null, Str(""), Obj([insight |-> Str("mean 3")]), Arr(<<>>)}
ApiOutcomes == {Responded(b) : b \in ApiBodies} \cup Failures

Pending(method) ==
    [method |-> method, st |-> "pending", outcome |-> Failed(Undefined),
     promise |-> Rejected(Undefined)]

\* get(endpoint): setLoading(true), then the request is in flight
CallGet ==
    /\ Len(apiCalls) < MaxCalls
    /\ apiLoading' = TRUE
    /\ apiCalls' = Append(apiCalls, Pending("get"))
    /\ UNCHANGED notApi

\* post(endpoint, data): setLoading(true), then the request is in flight
CallPost ==
    /\ Len(apiCalls) < MaxCalls
    /\ apiLoading' = TRUE
    /\ apiCalls' = Append(apiCalls, Pending("post"))
    /\ UNCHANGED notApi

\* the request of call i ends: setLoading(false), and the promise settles
Complete(i, o) ==
    /\ apiCalls[i].st = "pending"
    /\ apiLoading' = FALSE
    /\ apiCalls' = [apiCalls EXCEPT ![i] =
           [method |-> @.method, st |-> "settled", outcome |-> o,
            promise |-> Settle(@.method, o)]]
    /\ UNCHANGED notApi

CompleteCall == \E i \in DOMAIN apiCalls : \E o \in ApiOutcomes : Complete(i, o)

----------------------------------------------------------------------------
(* SuggestionsPanel *)

\* useApi.js 9-12, 14, 29: api is created anew by every render and get is
\* memoised over [api], so every committed render hands the component a new
\* get, and an effect that depends on [get] runs again after it
EffectDue(committed) == committed

\* what the user can have typed into the input
Inputs == {<<>>, <<" ">>, <<"a">>, <<"b", " ">>}

NoInsight == Str("No insight available")

\* bodies of a 2xx response of /api/suggestions/suggestions
SuggestionBodies ==
    {Null, Obj([suggestions |-> Undefined]), Obj([suggestions |-> Arr(<<"s1">>)])}

\* bodies of a 2xx response of /insights
InsightBodies ==
    {Null, Obj([insight |-> Undefined]), Obj([insight |-> Str("")]),
     Obj([insight |-> Str("mean 3")])}

SugFailures == {Failed(Undefined)}

SugOutcomes(kind) ==
    IF kind = "suggestions"
    THEN {Responded(b) : b \in SuggestionBodies} \cup SugFailures
    ELSE {Responded(b) : b \in InsightBodies} \cup SugFailures

SugRequest(kind, query) ==
    [kind |-> kind, query |-> query, st |-> "pending", outcome |-> Failed(Undefined)]

\* the mount effect: fetchSuggestions() up to its await; get sets loading
fetchSuggestions ==
    /\ sugEffect
    /\ Len(sugRequests) < MaxSugRequests
    /\ sugRequests' = Append(sugRequests, SugRequest("suggestions", <<>>))
    /\ sugLoading' = TRUE
    /\ sugEffect' = EffectDue(sugLoading # TRUE)
    /\ sugSubmitted' = FALSE
    /\ UNCHANGED <<userInput, suggestions, insights, sugUserActed, sugUnhandled>>
    /\ UNCHANGED notSug

\* onChange of the input: setUserInput(e.target.value)
TypeInput(text) ==
    /\ text # userInput
    /\ userInput' = text
    /\ sugEffect' = (sugEffect \/ EffectDue(TRUE))
    /\ sugUserActed' = TRUE
    /\ sugSubmitted' = FALSE
    /\ UNCHANGED <<suggestions, insights, sugLoading, sugRequests, sugUnhandled>>
    /\ UNCHANGED notSug

\* handleInsightRequest with a blank input: it returns at once
SubmitBlank ==
    /\ trim(userInput) = <<>>
    /\ sugUserActed' = TRUE
    /\ sugSubmitted' = TRUE
    /\ UNCHANGED <<userInput, suggestions, insights, sugLoading, sugRequests,
                   sugEffect, sugUnhandled>>
    /\ UNCHANGED notSug

\* handleInsightRequest up to its await: post sets loading
SubmitQuery ==
    /\ trim(userInput) # <<>>
    /\ Len(sugRequests) < MaxSugRequests
    /\ sugRequests' = Append(sugRequests, SugRequest("insight", userInput))
    /\ sugLoading' = TRUE
    /\ sugEffect' = (sugEffect \/ EffectDue(sugLoading # TRUE))
    /\ sugUserActed' = TRUE
    /\ sugSubmitted' = TRUE
    /\ UNCHANGED <<userInput, suggestions, insights, sugUnhandled>>
    /\ UNCHANGED notSug

\* click on the send button, or Enter in the input
handleInsightRequest == SubmitBlank \/ SubmitQuery

\* the rest of fetchSuggestions, given what get resolved to
SuggestionsAfter(result) ==
    IF ~result.error /\ Truthy(result.data)
    THEN OrElse(result.data.v.suggestions, Arr(<<>>)).v
    ELSE suggestions

\* the rest of handleInsightRequest, given the query it was called with and
\* what post resolved to
InsightsAfter(query, result) ==
    IF ~result.error /\ Truthy(result.data)
    THEN Append(insights,
                [query |-> query,
                 response |-> OrElse(result.data.v.insight, NoInsight)])
    ELSE insights

InputAfter(result) ==
    IF ~result.error /\ Truthy(result.data) THEN <<>> ELSE userInput

\* the request i ends: the hook clears loading and its promise settles; the
\* caller's continuation runs on the result
SettleSug(i, o) ==
    LET req == sugRequests[i]
        p == IF req.kind = "suggestions" THEN get(o) ELSE post(o)
        ran == p.state = "fulfilled"
        stored == ran /\ ~p.value.error /\ Truthy(p.value.data)
    IN /\ req.st = "pending"
       /\ sugRequests' = [sugRequests EXCEPT ![i].st = "settled", ![i].outcome = o]
       /\ sugLoading' = FALSE
       /\ suggestions' = IF ran /\ req.kind = "suggestions"
                         THEN SuggestionsAfter(p.value) ELSE suggestions
       /\ insights' = IF ran /\ req.kind = "insight"
                      THEN InsightsAfter(req.query, p.value) ELSE insights
       /\ userInput' = IF ran /\ req.kind = "insight"
                       THEN InputAfter(p.value) ELSE userInput
       /\ sugUnhandled' = (sugUnhandled \/ ~ran)
       /\ sugEffect' = (sugEffect \/ EffectDue(sugLoading # FALSE \/ stored))
       /\ sugSubmitted' = FALSE
       /\ UNCHANGED sugUserActed
       /\ UNCHANGED notSug

SettleSuggestions ==
    \E i \in DOMAIN sugRequests :
        /\ sugRequests[i].kind = "suggestions"
        /\ \E o \in SugOutcomes("suggestions") : SettleSug(i, o)

SettleInsight ==
    \E i \in DOMAIN sugRequests :
        /\ sugRequests[i].kind = "insight"
        /\ \E o \in SugOutcomes("insight") : SettleSug(i, o)

TypeSomething == \E text \in Inputs : TypeInput(text)

NextSug ==
    \/ fetchSuggestions
    \/ TypeSomething
    \/ handleInsightRequest
    \/ SettleSuggestions
    \/ SettleInsight

----------------------------------------------------------------------------
(* DataUpload *)

\* String.prototype.endsWith on strings given as sequences of characters
endsWith(s, suffix) ==
    /\ Len(s) >= Len(suffix)
    /\ SubSeq(s, Len(s) - Len(suffix) + 1, Len(s)) = suffix

DotCsv == <<".", "c", "s", "v">>

\* a File the browser hands over: its name, the MIME type the browser
\* reports for it, and the format its content really has
NoFile == [name |-> <<>>, type |-> "", format |-> "none"]
Files ==
    {[name |-> <<"a", ".", "c", "s", "v">>, type |-> "text/csv", format |-> "csv"],
     [name |-> <<"b", ".", "c", "s", "v">>, type |-> "application/vnd.ms-excel",
      format |-> "csv"],
     [name |-> <<"d", ".", "x", "l", "s", "x">>,
      type |-> "application/vnd.openxmlformats-officedocument.spreadsheetml.sheet",
      format |-> "excel"],
     [name |-> <<"e", ".", "t", "x", "t">>, type |-> "text/plain", format |-> "other"]}

\* a drop or a dialog carries no file, or a first file
FileLists == {<<>>} \cup {<<f>> : f \in Files}

CsvOnly == "Please upload a CSV file only."
SelectFirst == "Please select a file first."
UploadDisabled == "Upload disabled - backend not available"
UploadedOk == "File uploaded successfully!"

\* the test both handlers make of the file they are given
IsCsv(f) == f.type = "text/csv" \/ endsWith(f.name, DotCsv)

\* onDragEnter, onDragOver, onDragLeave of the upload zone
handleDrag(type) ==
    /\ dragActive' = IF type \in {"dragenter", "dragover"} THEN TRUE
                     ELSE IF type = "dragleave" THEN FALSE
                     ELSE dragActive
    /\ UNCHANGED <<file, message, messageType, inputValue, upLoading, upRequests,
                   offered>>
    /\ UNCHANGED notUp

\* onDrop of the upload zone; offered keeps e.dataTransfer.files
handleDrop(files) ==
    /\ offered' = files
    /\ dragActive' = FALSE
    /\ IF files # <<>>
       THEN IF IsCsv(files[1])
            THEN file' = files[1] /\ message' = "" /\ UNCHANGED messageType
            ELSE message' = CsvOnly /\ messageType' = "error" /\ UNCHANGED file
       ELSE UNCHANGED <<file, message, messageType>>
    /\ UNCHANGED <<inputValue, upLoading, upRequests>>
    /\ UNCHANGED notUp

\* onChange of the file input: the browser has put the picked file in it;
\* offered keeps e.target.files
handleFileSelect(files) ==
    /\ offered' = files
    /\ inputValue' = IF files # <<>> THEN files[1].name ELSE <<>>
    /\ IF files # <<>>
       THEN IF IsCsv(files[1])
            THEN file' = files[1] /\ message' = "" /\ UNCHANGED messageType
            ELSE message' = CsvOnly /\ messageType' = "error" /\ UNCHANGED file
       ELSE UNCHANGED <<file, message, messageType>>
    /\ UNCHANGED <<dragActive, upLoading, upRequests>>
    /\ UNCHANGED notUp

\* the submit button as the last render left it: disabled={loading}
SubmitAlwaysEnabled == TRUE

SubmitEnabled == ~upLoading

\* a handleSubmit that posts although no file is selected
SubmitNoFileSends ==
    /\ SubmitEnabled
    /\ file = NoFile
    /\ Len(upRequests) < MaxUploads
    /\ upRequests' = Append(upRequests,
           [file |-> file, st |-> "pending", outcome |-> Failed(Undefined)])
    /\ upLoading' = TRUE
    /\ UNCHANGED <<dragActive, file, message, messageType, inputValue, offered>>
    /\ UNCHANGED notUp

\* handleSubmit with no file selected
SubmitNoFile ==
    /\ SubmitEnabled
    /\ file = NoFile
    /\ message' = SelectFirst
    /\ messageType' = "error"
    /\ UNCHANGED <<dragActive, file, inputValue, upLoading, upRequests, offered>>
    /\ UNCHANGED notUp

\* handleSubmit up to its await: post sets loading, the request is in flight
SubmitFile ==
    /\ SubmitEnabled
    /\ file # NoFile
    /\ Len(upRequests) < MaxUploads
    /\ upRequests' = Append(upRequests,
           [file |-> file, st |-> "pending", outcome |-> Failed(Undefined)])
    /\ upLoading' = TRUE
    /\ UNCHANGED <<dragActive, file, message, messageType, inputValue, offered>>
    /\ UNCHANGED notUp

\* click on the submit button
handleSubmit == SubmitNoFile \/ SubmitFile

\* a rest of handleSubmit that takes a failed upload for a success
AfterUploadAlwaysOk(result) ==
    [message |-> UploadedOk, messageType |-> "success", file |-> NoFile,
     inputValue |-> <<>>]

\* the rest of handleSubmit, given what post resolved to
AfterUpload(result) ==
    IF result.error
    THEN [message |-> UploadDisabled, messageType |-> "error", file |-> file,
          inputValue |-> inputValue]
    ELSE [message |-> UploadedOk, messageType |-> "success", file |-> NoFile,
          inputValue |-> <<>>]

UploadBodies == {Null, Obj([message |-> Str("uploaded")])}
UploadOutcomes ==
    {Responded(b) : b \in UploadBodies} \cup {Failed(Undefined), Failed(Str("Invalid file"))}

\* the upload i ends: the hook clears loading, the rest of handleSubmit runs
SettleUpload(i, o) ==
    LET p == post(o)
        after == AfterUpload(p.value)
    IN /\ upRequests[i].st = "pending"
       /\ upRequests' = [upRequests EXCEPT ![i].st = "settled", ![i].outcome = o]
       /\ upLoading' = FALSE
       /\ IF p.state = "fulfilled"
          THEN /\ message' = after.message
               /\ messageType' = after.messageType
               /\ file' = after.file
               /\ inputValue' = after.inputValue
          ELSE UNCHANGED <<message, messageType, file, inputValue>>
       /\ UNCHANGED <<dragActive, offered>>
       /\ UNCHANGED notUp

Drag == \E type \in {"dragenter", "dragover", "dragleave"} : handleDrag(type)
Drop == \E files \in FileLists : handleDrop(files)
Pick == \E files \in FileLists : handleFileSelect(files)
UploadEnds == \E i \in DOMAIN upRequests : \E o \in UploadOutcomes : SettleUpload(i, o)

NextUpload == Drag \/ Drop \/ Pick \/ handleSubmit \/ UploadEnds

----------------------------------------------------------------------------
(* Dashboard *)

\* axios.get as Dashboard calls it: the promise is fulfilled with the axios
\* response, which has a data and no error property, or rejected
axiosGet(o) ==
    IF o.ok
    THEN Fulfilled([data |-> o.body, error |-> Undefined])
    ELSE Rejected(o.msg)

\* Array.prototype.slice(0, n)
slice(q, n) == SubSeq(q, 1, IF Len(q) < n THEN Len(q) ELSE n)

ChartRows == 10

ZeroStats == [rows |-> Num(0), columns |-> Num(0), charts |-> Num(0)]

\* bodies of a 2xx response of /summary
SummaryBodies ==
    {Null,
     Obj([rows |-> Num(0), columns |-> Num(0), charts |-> Num(0)]),
     Obj([rows |-> Num(3), columns |-> Num(2), charts |-> Undefined])}

\* bodies of a 2xx response of /data, as Dashboard reads them
ChartBodies == {Null, Arr(<<>>), Arr(<<1, 2, 3, 4, 5, 6, 7, 8, 9, 10, 11>>)}

DashFailures == {Failed(Undefined)}

\* the stats fetchDashboardData stores for a summary body
StatsOf(data) ==
    [rows |-> OrElse(data.v.rows, Num(0)),
     columns |-> OrElse(data.v.columns, Num(0)),
     charts |-> OrElse(data.v.charts, Num(0))]

\* what a StatCard shows for a value
StatCard(value) == OrElse(value, Num(0))

\* the effect: fetchDashboardData() up to its first await.  Dashboard.jsx
\* imports no axios, so the name resolves to a global, if the page has one:
\* the first call finds out.  Where the name is unbound the call throws a
\* ReferenceError, and the promise of fetchDashboardData, which nothing
\* awaits, is rejected
fetchDashboardData ==
    /\ dashEffect
    /\ Len(dashCalls) < MaxDashCalls
    /\ dashEffect' = FALSE
    /\ axiosBound' \in IF axiosBound = "unresolved" THEN {"bound", "unbound"}
                       ELSE {axiosBound}
    /\ IF axiosBound' = "bound"
       THEN /\ dashCalls' = Append(dashCalls, "summary")
            /\ UNCHANGED dashUnhandled
       ELSE /\ dashCalls' = Append(dashCalls, "threw")
            /\ dashUnhandled' = TRUE
    /\ UNCHANGED <<stats, chartData>>
    /\ UNCHANGED notDash

\* the /summary request of run i ends; on a response the run goes on to
\* request /data
SettleSummary(i, o) ==
    LET p == axiosGet(o)
        stored == p.state = "fulfilled" /\ ~Truthy(p.value.error)
                    /\ Truthy(p.value.data)
    IN /\ dashCalls[i] = "summary"
       /\ dashCalls' = [dashCalls EXCEPT ![i] =
              IF p.state = "fulfilled" THEN "data" ELSE "threw"]
       /\ dashUnhandled' = (dashUnhandled \/ p.state = "rejected")
       /\ stats' = IF stored THEN StatsOf(p.value.data) ELSE stats
       /\ dashEffect' = (dashEffect \/ EffectDue(stored))
       /\ UNCHANGED <<axiosBound, chartData>>
       /\ UNCHANGED notDash

\* the /data request of run i ends
SettleChartData(i, o) ==
    LET p == axiosGet(o)
        stored == p.state = "fulfilled" /\ ~Truthy(p.value.error)
                    /\ Truthy(p.value.data)
    IN /\ dashCalls[i] = "data"
       /\ dashCalls' = [dashCalls EXCEPT ![i] =
              IF p.state = "fulfilled" THEN "done" ELSE "threw"]
       /\ dashUnhandled' = (dashUnhandled \/ p.state = "rejected")
       /\ chartData' = IF stored THEN slice(p.value.data.v, ChartRows) ELSE chartData
       /\ dashEffect' = (dashEffect \/ EffectDue(stored))
       /\ UNCHANGED <<axiosBound, stats>>
       /\ UNCHANGED notDash

SummaryEnds ==
    \E i \in DOMAIN dashCalls :
        \E o \in {Responded(b) : b \in SummaryBodies} \cup DashFailures :
            SettleSummary(i, o)

ChartDataEnds ==
    \E i \in DOMAIN dashCalls :
        \E o \in {Responded(b) : b \in ChartBodies} \cup DashFailures :
            SettleChartData(i, o)

NextDashboard == fetchDashboardData \/ SummaryEnds \/ ChartDataEnds

----------------------------------------------------------------------------
(* DataTablePage *)

\* an object is the sequence of its <<key, value>> pairs, in insertion order
ObjectKeys(obj) == [k \in 1..Len(obj) |-> obj[k][1]]

\* obj[key]
Prop(obj, key) ==
    IF \E k \in 1..Len(obj) : obj[k][1] = key
    THEN obj[CHOOSE k \in 1..Len(obj) : obj[k][1] = key][2]
    ELSE Undefined

RowAB == <<<<"a", Num(1)>>, <<"b", Num(2)>>>>
RowBA == <<<<"b", Num(3)>>, <<"a", Num(4)>>>>
RowA == <<<<"a", Num(5)>>>>

\* bodies of a 2xx response of /data
TableBodies ==
    {Null, Arr(<<>>), Arr(<<RowAB>>), Arr(<<RowBA, RowAB>>), Arr(<<RowA, RowAB>>)}

TableOutcomes == {Responded(b) : b \in TableBodies} \cup {Failed(Undefined)}

\* the mount effect: fetchTableData() up to its await; get sets the hook's
\* loading
fetchTableData ==
    /\ tblEffect
    /\ Len(tblResponses) + tblPending < MaxTableRequests
    /\ tblPending' = tblPending + 1
    /\ tblHookLoading' = TRUE
    /\ tblEffect' = EffectDue(tblHookLoading # TRUE)
    /\ UNCHANGED <<tableData, columns, loading, tblResponses>>
    /\ UNCHANGED notTbl

\* a /data request ends: the hook clears its loading, the rest of
\* fetchTableData runs on the result
SettleTable(o) ==
    LET p == get(o)
        ran == p.state = "fulfilled"
        stored == /\ ran
                  /\ ~p.value.error
                  /\ Truthy(p.value.data)
                  /\ Len(p.value.data.v) > 0
    IN /\ tblPending > 0
       /\ tblPending' = tblPending - 1
       /\ tblResponses' = Append(tblResponses, o)
       /\ tblHookLoading' = FALSE
       /\ loading' = IF ran THEN FALSE ELSE loading
       /\ tableData' = IF stored THEN p.value.data.v ELSE tableData
       /\ columns' = IF stored THEN ObjectKeys(p.value.data.v[1]) ELSE columns
       /\ tblEffect' = (tblEffect \/ EffectDue(tblHookLoading # FALSE \/ (ran /\ loading)
                                                 \/ stored))
       /\ UNCHANGED notTbl

TableDataEnds == \E o \in TableOutcomes : SettleTable(o)

\* what DataTablePage renders
TableView ==
    IF loading
    THEN [screen |-> "Loading data...", showing |-> 0, header |-> <<>>, rows |-> <<>>]
    ELSE IF Len(tableData) = 0
    THEN [screen |-> "No data uploaded yet", showing |-> 0, header |-> <<>>,
          rows |-> <<>>]
    ELSE [screen |-> "Data Table", showing |-> Len(tableData), header |-> columns,
          rows |-> [r \in 1..Len(tableData) |->
                       [c \in 1..Len(columns) |-> Prop(tableData[r], columns[c])]]]

NextTable == fetchTableData \/ TableDataEnds

----------------------------------------------------------------------------
(* VisualizationPage *)

ChartTypes == {"bar", "line", "pie"}

\* bodies of a 2xx response of /data are those DataTablePage receives
VisOutcomes == TableOutcomes

\* columns[0]
FirstColumn(cols) == cols[1]

\* columns[1] || columns[0]
SecondOrFirstColumn(cols) ==
    IF Len(cols) >= 2 /\ cols[2] # "" THEN cols[2] ELSE cols[1]

\* the mount effect: fetchData() up to its await; get sets the hook's loading
fetchData ==
    /\ visEffect
    /\ visIssued < MaxVisRequests
    /\ visIssued' = visIssued + 1
    /\ visPending' = visPending + 1
    /\ visHookLoading' = TRUE
    /\ visEffect' = EffectDue(visHookLoading # TRUE)
    /\ UNCHANGED <<visData, chartType, xAxis, yAxis, availableColumns, visChosen>>
    /\ UNCHANGED notVis

\* a /data request ends: the hook clears its loading, the rest of fetchData
\* runs on the result
SettleVis(o) ==
    LET p == get(o)
        stored == /\ p.state = "fulfilled"
                  /\ ~p.value.error
                  /\ Truthy(p.value.data)
                  /\ Len(p.value.data.v) > 0
        cols == ObjectKeys(p.value.data.v[1])
    IN /\ visPending > 0
       /\ visPending' = visPending - 1
       /\ visHookLoading' = FALSE
       /\ visData' = IF stored THEN p.value.data.v ELSE visData
       /\ availableColumns' = IF stored THEN cols ELSE availableColumns
       /\ xAxis' = IF stored /\ Len(cols) > 0
                   THEN FirstColumn(cols) ELSE xAxis
       /\ yAxis' = IF stored /\ Len(cols) > 0
                   THEN SecondOrFirstColumn(cols) ELSE yAxis
       /\ visEffect' = (visEffect \/ EffectDue(visHookLoading # FALSE \/ stored))
       /\ UNCHANGED <<chartType, visIssued, visChosen>>
       /\ UNCHANGED notVis

\* the controls are rendered once chartData is not empty
ControlsShown == Len(visData) > 0

\* onChange of the chart type select
setChartType(type) ==
    /\ ControlsShown
    /\ type # chartType
    /\ chartType' = type
    /\ visChosen' = visChosen \cup {"chartType"}
    /\ visEffect' = (visEffect \/ EffectDue(TRUE))
    /\ UNCHANGED <<visData, xAxis, yAxis, availableColumns, visHookLoading,
                   visPending, visIssued>>
    /\ UNCHANGED notVis

\* onChange of the X-axis select: its options are the available columns
setXAxis(column) ==
    /\ ControlsShown
    /\ column # xAxis
    /\ xAxis' = column
    /\ visChosen' = visChosen \cup {"xAxis"}
    /\ visEffect' = (visEffect \/ EffectDue(TRUE))
    /\ UNCHANGED <<visData, chartType, yAxis, availableColumns, visHookLoading,
                   visPending, visIssued>>
    /\ UNCHANGED notVis

\* onChange of the Y-axis select
setYAxis(column) ==
    /\ ControlsShown
    /\ column # yAxis
    /\ yAxis' = column
    /\ visChosen' = visChosen \cup {"yAxis"}
    /\ visEffect' = (visEffect \/ EffectDue(TRUE))
    /\ UNCHANGED <<visData, chartType, xAxis, availableColumns, visHookLoading,
                   visPending, visIssued>>
    /\ UNCHANGED notVis

Options == {availableColumns[k] : k \in DOMAIN availableColumns}

ChartDataArrives == \E o \in VisOutcomes : SettleVis(o)
SelectChartType == \E type \in ChartTypes : setChartType(type)
SelectXAxis == \E column \in Options : setXAxis(column)
SelectYAxis == \E column \in Options : setYAxis(column)

NextVis ==
    fetchData \/ ChartDataArrives \/ SelectChartType \/ SelectXAxis \/ SelectYAxis

----------------------------------------------------------------------------
(* Initial state and specifications *)

InitApi ==
    /\ apiLoading = FALSE
    /\ apiCalls = <<>>

InitSug ==
    /\ userInput = <<>>
    /\ suggestions = <<>>
    /\ insights = <<>>
    /\ sugLoading = FALSE
    /\ sugRequests = <<>>
    /\ sugEffect = TRUE
    /\ sugUserActed = FALSE
    /\ sugUnhandled = FALSE
    /\ sugSubmitted = FALSE

InitUpload ==
    /\ dragActive = FALSE
    /\ file = NoFile
    /\ message = ""
    /\ messageType = ""
    /\ inputValue = <<>>
    /\ upLoading = FALSE
    /\ upRequests = <<>>
    /\ offered = <<>>

InitDashboard ==
    /\ axiosBound = "unresolved"
    /\ stats = ZeroStats
    /\ chartData = <<>>
    /\ dashCalls = <<>>
    /\ dashEffect = TRUE
    /\ dashUnhandled = FALSE

InitTable ==
    /\ tableData = <<>>
    /\ columns = <<>>
    /\ loading = TRUE
    /\ tblHookLoading = FALSE
    /\ tblPending = 0
    /\ tblResponses = <<>>
    /\ tblEffect = TRUE

InitVis ==
    /\ visData = <<>>
    /\ chartType = "bar"
    /\ xAxis = ""
    /\ yAxis = ""
    /\ availableColumns = <<>>
    /\ visHookLoading = FALSE
    /\ visPending = 0
    /\ visIssued = 0
    /\ visEffect = TRUE
    /\ visChosen = {}

Init == InitApi /\ InitSug /\ InitUpload /\ InitDashboard /\ InitTable /\ InitVis

NextApi == CallGet \/ CallPost \/ CompleteCall

SpecApi == Init /\ [][NextApi]_vars

SpecSuggestions == Init /\ [][NextSug]_vars

SpecUpload == Init /\ [][NextUpload]_vars

SpecDashboard == Init /\ [][NextDashboard]_vars

SpecTable == Init /\ [][NextTable]_vars

SpecVis == Init /\ [][NextVis]_vars

\* the application shows one page at a time: the component of the page that
\* is not shown stays as it is constructed
NextPages ==
    \/ InitUpload /\ NextSug
    \/ InitSug /\ NextUpload

SpecPages == Init /\ [][NextPages]_vars

----------------------------------------------------------------------------
(* C1: every call of get or post resolves, never rejects; on a 2xx         *)
(* response to {data: body, error: false}, on any failure to               *)
(* {data: null, error: true, message}, the message being the server's or   *)
(* 'Backend not available'.                                                *)

IsServerMessage(m) == m.t = "string" /\ m.v # ""

C1_StructuredResult ==
    \A i \in DOMAIN apiCalls :
        apiCalls[i].st = "settled" =>
            LET o == apiCalls[i].outcome
                p == apiCalls[i].promise
            IN /\ p.state = "fulfilled"
               /\ o.ok => p.value = [data |-> o.body, error |-> FALSE]
               /\ ~o.ok =>
                    /\ DOMAIN p.value = {"data", "error", "message"}
                    /\ p.value.data = Null
                    /\ p.value.error = TRUE
                    /\ IsServerMessage(o.msg) => p.value.message = o.msg
                    /\ ~IsServerMessage(o.msg) =>
                           p.value.message = Str("Backend not available")

\* a get and a post have both failed, one with and one without a message
C1_Witness ==
    \E i, j \in DOMAIN apiCalls :
        /\ apiCalls[i].method = "get" /\ apiCalls[j].method = "post"
        /\ apiCalls[i].st = "settled" /\ apiCalls[j].st = "settled"
        /\ apiCalls[i].outcome = Failed(Str("Invalid file"))
        /\ apiCalls[j].outcome = Failed(Undefined)
        /\ \E k \in DOMAIN apiCalls :
               apiCalls[k].st = "settled" /\ apiCalls[k].outcome.ok

(* C10: the loading flag is true whenever a request of the instance is in  *)
(* flight, and false once every request has settled.                       *)
C10_LoadingTracksInFlight ==
    apiLoading <=> (\E i \in DOMAIN apiCalls : apiCalls[i].st = "pending")

----------------------------------------------------------------------------
(* C2: no request is retried: once the SuggestionsPanel is mounted its     *)
(* endpoint is requested once, and no further request to it is issued      *)
(* without a user action.                                                  *)

SuggestionRequests == {i \in DOMAIN sugRequests : sugRequests[i].kind = "suggestions"}

C2_RequestedOnce == ~sugUserActed => Cardinality(SuggestionRequests) <= 1

(* C3: the insight list is append-only: a step never removes, changes or   *)
(* reorders an entry, and the step in which an insight request ends with   *)
(* a 2xx response appends exactly one entry, whose query is the text that  *)
(* was submitted.                                                          *)

SucceedsIn(i) ==
    /\ sugRequests[i].kind = "insight"
    /\ sugRequests[i].st = "pending"
    /\ sugRequests'[i].st = "settled"
    /\ sugRequests'[i].outcome.ok

C3_AppendOnly ==
    [][/\ Len(insights') >= Len(insights)
       /\ SubSeq(insights', 1, Len(insights)) = insights
       /\ \A i \in DOMAIN sugRequests :
              SucceedsIn(i) =>
                  /\ Len(insights') = Len(insights) + 1
                  /\ insights'[Len(insights')].query = sugRequests[i].query]_vars

(* C4: every non-blank query that was submitted has, once its request has  *)
(* settled, a response recorded for it: the insight of the backend, or     *)
(* 'No insight available' when none is returned; and no unhandled error    *)
(* is raised.                                                              *)

ReturnedInsight(o) ==
    IF o.ok /\ o.body.t = "object" /\ o.body.v.insight.t = "string"
               /\ o.body.v.insight.v # ""
    THEN o.body.v.insight
    ELSE Str("No insight available")

C4_EveryQueryAnswered ==
    /\ ~sugUnhandled
    /\ \A i \in DOMAIN sugRequests :
           (sugRequests[i].kind = "insight" /\ sugRequests[i].st = "settled") =>
               \E j \in DOMAIN insights :
                   /\ insights[j].query = sugRequests[i].query
                   /\ insights[j].response = ReturnedInsight(sugRequests[i].outcome)

----------------------------------------------------------------------------
(* C5: uploads are serialized: at most one upload request of the           *)
(* DataUpload is in flight at any time.                                    *)

UploadsInFlight == {i \in DOMAIN upRequests : upRequests[i].st = "pending"}

Supported(f) == f.format \in {"csv", "excel"}

C6_SupportedFormatsSelected ==
    [][\A f \in Files :
           (offered' = <<f>> /\ (handleDrop(<<f>>) \/ handleFileSelect(<<f>>))) =>
               IF Supported(f)
               THEN file' = f
               ELSE /\ file' = file
                    /\ file' # f
                    /\ message' # ""
                    /\ messageType' = "error"]_vars

(* C7: when the upload request fails, the message shown is of type         *)
(* 'error', it is not the success message, and the selected file stays     *)
(* selected; the file is cleared, and 'File uploaded successfully!' of     *)
(* type 'success' shown, only by an upload request that succeeded.         *)

UploadEndsIn(i, ok) ==
    /\ upRequests[i].st = "pending"
    /\ upRequests'[i].st = "settled"
    /\ upRequests'[i].outcome.ok = ok

C7_FailedUploadKeepsFile ==
    [][/\ \A i \in DOMAIN upRequests :
              UploadEndsIn(i, FALSE) =>
                  /\ message' \notin {"", UploadedOk}
                  /\ messageType' = "error"
                  /\ file' = file
       /\ (file # NoFile /\ file' = NoFile) =>
              \E i \in DOMAIN upRequests : UploadEndsIn(i, TRUE)
       /\ (message' = UploadedOk /\ message # UploadedOk) =>
              \E i \in DOMAIN upRequests : UploadEndsIn(i, TRUE)
       /\ (messageType' = "success" /\ messageType # "success") =>
              \E i \in DOMAIN upRequests : UploadEndsIn(i, TRUE)
       /\ message' = UploadedOk => messageType' = "success"]_vars

\* an upload has failed and one has succeeded; the failure is on display and
\* a file is selected
C7_Witness ==
    /\ \E i \in DOMAIN upRequests :
           upRequests[i].st = "settled" /\ upRequests[i].outcome.ok
    /\ \E i \in DOMAIN upRequests :
           upRequests[i].st = "settled" /\ ~upRequests[i].outcome.ok
    /\ message = UploadDisabled
    /\ messageType = "error"
    /\ file # NoFile

----------------------------------------------------------------------------
(* C8: the Dashboard's statistics are always numbers; they are 0 before    *)
(* the summary arrives; a summary response sets them to the received       *)
(* values, 0 for a missing field; a failed summary or data request leaves  *)
(* them as they were and raises no unhandled error.                        *)

StatFields == {"rows", "columns", "charts"}

Received(body) ==
    [f \in StatFields |-> IF body.v[f].t = "number" THEN body.v[f] ELSE Num(0)]

C8_StatsZeroedNoCrash ==
    [][/\ \A f \in StatFields : StatCard(stats'[f]).t = "number"
       /\ (\A i \in DOMAIN dashCalls' : dashCalls'[i] = "summary") => stats' = ZeroStats
       /\ \A i \in DOMAIN dashCalls : \A b \in SummaryBodies \ {Null} :
              SettleSummary(i, Responded(b)) =>
                  \A f \in StatFields : stats'[f] = Received(b)[f]
       /\ \A i \in DOMAIN dashCalls :
              (dashCalls[i] # "threw" /\ dashCalls'[i] = "threw") => stats' = stats
       /\ ~dashUnhandled']_vars

(* C9: after a /data response of N >= 1 records DataTablePage shows N     *)
(* rows, 'Showing N rows' and one column per key of the first record, in   *)
(* order, every row over these columns; after an empty or failed response  *)
(* it shows 'No data uploaded yet'; 'Loading data...' is shown only before *)
(* the first response has settled.                                         *)

LastResponse == tblResponses[Len(tblResponses)]

HoldsRecords(o) == o.ok /\ o.body.t = "array" /\ Len(o.body.v) >= 1

C9_TableShowsResponse ==
    /\ TableView.screen = "Loading data..." => tblResponses = <<>>
    /\ tblResponses # <<>> =>
           IF HoldsRecords(LastResponse)
           THEN /\ TableView.screen = "Data Table"
                /\ TableView.showing = Len(LastResponse.body.v)
                /\ Len(TableView.rows) = Len(LastResponse.body.v)
                /\ TableView.header = ObjectKeys(LastResponse.body.v[1])
                /\ \A r \in DOMAIN TableView.rows :
                       Len(TableView.rows[r]) = Len(TableView.header)
           ELSE TableView.screen = "No data uploaded yet"

----------------------------------------------------------------------------
(* C11: once data is loaded the X-axis and Y-axis are columns of the       *)
(* loaded data, at first the first column and the second (the first when   *)
(* there is only one); an axis or chart type the user has selected stays   *)
(* until the user changes it: no data fetch or re-render resets it.        *)

LoadedColumns(data) == {data[1][k][1] : k \in 1..Len(data[1])}

\* a step of the page itself, not of the user: a request is issued or ends
PageStep == visPending' # visPending

Control(name) ==
    IF name = "xAxis" THEN <<xAxis, xAxis'>>
    ELSE IF name = "yAxis" THEN <<yAxis, yAxis'>>
    ELSE <<chartType, chartType'>>

C11_SelectionsStay ==
    [][/\ visData' # <<>> =>
              /\ xAxis' \in LoadedColumns(visData')
              /\ yAxis' \in LoadedColumns(visData')
       /\ (visData = <<>> /\ visData' # <<>>) =>
              /\ xAxis' = visData'[1][1][1]
              /\ yAxis' = IF Len(visData'[1]) >= 2 THEN visData'[1][2][1]
                          ELSE visData'[1][1][1]
       /\ \A name \in visChosen :
              PageStep => Control(name)[2] = Control(name)[1]]_vars

----------------------------------------------------------------------------
(* C12: submitting without input sends nothing. handleSubmit of DataUpload *)
(* with no file selected issues no request and only sets the error message *)
(* 'Please select a file first.'; handleInsightRequest of SuggestionsPanel *)
(* with an empty or whitespace-only input issues no request and leaves the *)
(* insight list, the suggestions and the input text unchanged.             *)

\* the step is a call of handleInsightRequest with a blank input
BlankInsightRequest == sugSubmitted' /\ trim(userInput) = <<>>

\* the step is a call of handleSubmit with no file selected: no other
\* handler sets this message, and the handler sets it in no other case
SubmitWithoutFile == message' = SelectFirst /\ message # SelectFirst

C12_BlankSubmitSendsNothing ==
    [][/\ BlankInsightRequest =>
              UNCHANGED <<sugRequests, sugLoading, insights, suggestions, userInput>>
       /\ file = NoFile => Len(upRequests') = Len(upRequests)
       /\ SubmitWithoutFile =>
              /\ file = NoFile
              /\ messageType' = "error"
              /\ UNCHANGED <<file, dragActive, inputValue, upLoading, upRequests>>]_vars

\* handleInsightRequest was just called with a whitespace-only input while
\* the suggestions were loaded, and nothing was sent for it
C12_Witness ==
    /\ sugSubmitted
    /\ userInput # <<>>
    /\ trim(userInput) = <<>>
    /\ suggestions # <<>>
    /\ \A i \in DOMAIN sugRequests : sugRequests[i].kind = "suggestions"

====
